---- MODULE Spec2Model ----
(***************************************************************************)
(* The task API of demos/python-fastapi: the in-memory store (tasks_db,    *)
(* next_id) of app/api/v1/tasks.py, the pydantic models of                 *)
(* app/models/task.py that validate request bodies and responses, and the  *)
(* six route handlers.                                                     *)
(*                                                                         *)
(* JSON values are modelled as TLA+ strings.  Two reserved strings stand   *)
(* for "the key is absent from the payload" (Unset) and for JSON null /    *)
(* Python None (None); no title, description, enum value or date used as   *)
(* an input is equal to either.  Timestamps are readings of an integer     *)
(* clock.                                                                  *)
(***************************************************************************)
EXTENDS Integers, Sequences, FiniteSets, TLC

VARIABLES
    tasks_db,   \* tasks.py:17   the list of task dicts, in insertion order
    next_id,    \* tasks.py:18   the id the next create will use
    clock,      \* the last reading of datetime.utcnow()
    resp,       \* the request served last and the response it got
    issued,     \* history: the ids returned by successful creates
    deleted,    \* history: the ids of successfully deleted tasks
    slot        \* per client: the request in flight, or its response

vars == <<tasks_db, next_id, clock, resp, issued, deleted, slot>>

-----------------------------------------------------------------------------
(* Bounds of the model *)

MaxId == 3          \* creates are served while next_id <= MaxId
MaxClock == 1       \* the clock readings of SpecFields and SpecUpdate stay <= MaxClock
NClients == 3       \* the clients of SpecConcurrent, one request each

-----------------------------------------------------------------------------
(* JSON values and the enumerations of app/models/task.py *)

Unset == "<unset>"
None == "<null>"

\* The string of n copies of s.
RECURSIVE Rep(_, _)
Rep(s, n) ==
    IF n = 0 THEN ""
    ELSE IF n % 2 = 0 THEN LET half == Rep(s, n \div 2) IN half \o half
    ELSE s \o Rep(s, n - 1)

MinTitleLen == 1
MaxTitleLen == 200
MaxDescLen == 1000
LimitMin == 1
LimitMax == 100
LimitDefault == 10
OffsetMin == 0

PENDING == "pending"
IN_PROGRESS == "in_progress"
COMPLETED == "completed"
CANCELLED == "cancelled"
TaskStatus == {PENDING, IN_PROGRESS, COMPLETED, CANCELLED}

LOW == "low"
MEDIUM == "medium"
HIGH == "high"
CRITICAL == "critical"
TaskPriority == {LOW, MEDIUM, HIGH, CRITICAL}

Fields == {"title", "description", "status", "priority", "due_date"}

\* The strings pydantic parses as a datetime, among those used as inputs.
Datetimes == {"2024-12-31T23:59:59"}

IsStr(v) == v \notin {Unset, None}

\* Field(..., min_length=1, max_length=200)
TitleOk(v) == IsStr(v) /\ Len(v) >= MinTitleLen /\ Len(v) <= MaxTitleLen

\* Field(None, max_length=1000)
DescriptionOk(v) == IsStr(v) /\ Len(v) <= MaxDescLen

StatusOk(v) == v \in TaskStatus

PriorityOk(v) == v \in TaskPriority

DueDateOk(v) == v \in Datetimes

\* TaskCreate(TaskBase): title is required and not Optional; description and
\* due_date are Optional; status and priority have defaults but are not
\* Optional, so an explicit null is rejected.
TaskCreateValid(raw) ==
    /\ TitleOk(raw.title)
    /\ raw.description \in {Unset, None} \/ DescriptionOk(raw.description)
    /\ raw.status = Unset \/ StatusOk(raw.status)
    /\ raw.priority = Unset \/ PriorityOk(raw.priority)
    /\ raw.due_date \in {Unset, None} \/ DueDateOk(raw.due_date)

\* The validated TaskCreate model: defaults fill the absent fields.
TaskCreate(raw) ==
    [title |-> raw.title,
     description |-> IF raw.description = Unset THEN None ELSE raw.description,
     status |-> IF raw.status = Unset THEN PENDING ELSE raw.status,
     priority |-> IF raw.priority = Unset THEN MEDIUM ELSE raw.priority,
     due_date |-> IF raw.due_date = Unset THEN None ELSE raw.due_date]

\* TaskUpdate: every field is Optional[...] = None, so each one accepts
\* absence, an explicit null, or a value that meets the constraint.
TaskUpdateValid(raw) ==
    /\ raw.title \in {Unset, None} \/ TitleOk(raw.title)
    /\ raw.description \in {Unset, None} \/ DescriptionOk(raw.description)
    /\ raw.status \in {Unset, None} \/ StatusOk(raw.status)
    /\ raw.priority \in {Unset, None} \/ PriorityOk(raw.priority)
    /\ raw.due_date \in {Unset, None} \/ DueDateOk(raw.due_date)

\* The keys of task_update.dict(exclude_unset=True): the fields the request
\* body carried, an explicit null included.
update_data(raw) == {f \in Fields : raw[f] # Unset}

\* Task(TaskBase), the response_model: validation of a handler's return value.
TaskValid(t) ==
    /\ TitleOk(t.title)
    /\ t.description = None \/ DescriptionOk(t.description)
    /\ StatusOk(t.status)
    /\ PriorityOk(t.priority)
    /\ t.due_date = None \/ DueDateOk(t.due_date)

-----------------------------------------------------------------------------
(* Helpers on the list tasks_db *)

Ids(db) == {db[i].id : i \in 1..Len(db)}

\* next((task for task in tasks_db if task["id"] == task_id), None):
\* the index of the first task with that id, 0 for None.
Find(db, task_id) ==
    IF task_id \in Ids(db)
    THEN CHOOSE i \in 1..Len(db) :
            /\ db[i].id = task_id
            /\ \A j \in 1..(i - 1) : db[j].id # task_id
    ELSE 0

\* seq[lo : hi] of Python, for 0 <= lo <= hi
Slice(seq, lo, hi) ==
    LET a == IF lo < Len(seq) THEN lo ELSE Len(seq)
        b == IF hi < Len(seq) THEN hi ELSE Len(seq)
    IN  [i \in 1..(b - a) |-> seq[a + i]]

-----------------------------------------------------------------------------
(* The handlers of app/api/v1/tasks.py, as functions of the store *)

\* get_tasks: the list the handler returns.
FilterStatus(db, status) ==
    IF status # Unset THEN SelectSeq(db, LAMBDA t : t.status = status) ELSE db

FilterPriorityIgnored(db, priority) == db

FilterPriority(db, priority) ==
    IF priority # Unset THEN SelectSeq(db, LAMBDA t : t.priority = priority) ELSE db

PaginateToLimit(filtered_tasks, limit, offset) ==
    Slice(filtered_tasks, offset, limit)

Paginate(filtered_tasks, limit, offset) ==
    Slice(filtered_tasks, offset, offset + limit)

get_tasks(db, status, priority, limit, offset) ==
    Paginate(FilterPriority(FilterStatus(db, status), priority), limit, offset)

\* create_task: the new dict; t1 and t2 are the two readings of utcnow().
NewTask(nid, task_data, t1, t2) ==
    [id |-> nid,
     title |-> task_data.title,
     description |-> task_data.description,
     status |-> task_data.status,
     priority |-> task_data.priority,
     due_date |-> task_data.due_date,
     created_at |-> t1,
     updated_at |-> t2]

AdvanceForgotten(nid) == nid

\* next_id += 1
Advance(nid) == nid + 1

ApplyUpdateNoRefresh(task, raw, t) ==
    [f \in DOMAIN task |-> IF f \in update_data(raw) THEN raw[f] ELSE task[f]]

\* update_task: the dict after the loop over update_data and the refresh of
\* updated_at at time t.
ApplyUpdate(task, raw, t) ==
    [f \in DOMAIN task |->
        IF f = "updated_at" THEN t
        ELSE IF f \in update_data(raw) THEN raw[f]
        ELSE task[f]]

RemoveAtPosition(db, task_id) ==
    IF task_id <= Len(db)
    THEN [i \in 1..(Len(db) - 1) |-> IF i < task_id THEN db[i] ELSE db[i + 1]]
    ELSE db

\* delete_task: [task for task in tasks_db if task["id"] != task_id]
Remove(db, task_id) == SelectSeq(db, LAMBDA t : t.id # task_id)

\* get_task_summary
Count(db, field, value) == Len(SelectSeq(db, LAMBDA t : t[field] = value))

SummaryZeroFilled(db) ==
    [total |-> Len(db),
     by_status |-> [s \in TaskStatus |-> Count(db, "status", s)],
     by_priority |-> [p \in TaskPriority |-> Count(db, "priority", p)]]

get_task_summary(db) ==
    IF db = <<>>
    THEN [total |-> 0, by_status |-> <<>>, by_priority |-> <<>>]
    ELSE [total |-> Len(db),
          by_status |-> [s \in TaskStatus |-> Count(db, "status", s)],
          by_priority |-> [p \in TaskPriority |-> Count(db, "priority", p)]]

-----------------------------------------------------------------------------
(* Request inputs *)

T1 == "T"
T200 == Rep("t", MaxTitleLen)
T201 == Rep("t", MaxTitleLen + 1)
D1000 == Rep("d", MaxDescLen)
D1001 == Rep("d", MaxDescLen + 1)
DUE == "2024-12-31T23:59:59"

Payload(t, d, s, p, due) ==
    [title |-> t, description |-> d, status |-> s, priority |-> p, due_date |-> due]

Empty == Payload(Unset, Unset, Unset, Unset, Unset)

With(raw, f, v) == [raw EXCEPT ![f] = v]


NoQuery == [status |-> Unset, priority |-> Unset, limit |-> LimitDefault, offset |-> OffsetMin]

\* A request: the route (op), the path parameter, the JSON body, the query.
Create(body) == [op |-> "create", id |-> 0, body |-> body, query |-> NoQuery]
Update(task_id, body) == [op |-> "update", id |-> task_id, body |-> body, query |-> NoQuery]
Delete(task_id) == [op |-> "delete", id |-> task_id, body |-> Empty, query |-> NoQuery]
Get(task_id) == [op |-> "get", id |-> task_id, body |-> Empty, query |-> NoQuery]
List(query) == [op |-> "list", id |-> 0, body |-> Empty, query |-> query]
Summary == [op |-> "summary", id |-> 0, body |-> Empty, query |-> NoQuery]
NoRequest == [op |-> "none", id |-> 0, body |-> Empty, query |-> NoQuery]

NoRet == "<no return value>"

-----------------------------------------------------------------------------
(* The routes: validation of the request, the handler, validation of the    *)
(* handler's return value against the response_model.  A handler has no     *)
(* await in its body, so the event loop runs it from its first line to its  *)
(* return as one step.                                                      *)

\* Query(10, ge=1, le=100), Query(0, ge=0), Optional[TaskStatus], Optional[TaskPriority]
QueryValid(q) ==
    /\ q.status = Unset \/ StatusOk(q.status)
    /\ q.priority = Unset \/ PriorityOk(q.priority)
    /\ q.limit >= LimitMin /\ q.limit <= LimitMax
    /\ q.offset >= OffsetMin

\* The status of a response whose body is validated against Task.
Serialized(ok_code, tasks) ==
    IF \A i \in 1..Len(tasks) : TaskValid(tasks[i]) THEN ok_code ELSE 500

Reply(req, code, ret) == resp' = [req |-> req, code |-> code, ret |-> ret]

\* A request that changes nothing in the store.
ReadOnly(req, code, ret) ==
    /\ Reply(req, code, ret)
    /\ UNCHANGED <<tasks_db, next_id, clock, issued, deleted>>

\* A reading of datetime.utcnow(): the clock may have advanced since the last
\* one, as long as it stays within the horizon of the specification.
Readings(from, horizon) == {t \in from..(from + 1) : t <= horizon \/ t = from}

\* GET /
GetTasks(req, horizon) ==
    /\ req.op = "list"
    /\ IF ~QueryValid(req.query)
       THEN ReadOnly(req, 422, NoRet)
       ELSE LET q == req.query
                paginated_tasks ==
                    get_tasks(tasks_db, q.status, q.priority, q.limit, q.offset)
            IN  ReadOnly(req, Serialized(200, paginated_tasks), paginated_tasks)

\* GET /{task_id}
GetTask(req, horizon) ==
    /\ req.op = "get"
    /\ LET i == Find(tasks_db, req.id)
       IN  IF i = 0
           THEN ReadOnly(req, 404, NoRet)
           ELSE ReadOnly(req, Serialized(200, <<tasks_db[i]>>), tasks_db[i])

\* POST /
CreateTask(req, horizon) ==
    /\ req.op = "create"
    /\ IF ~TaskCreateValid(req.body)
       THEN ReadOnly(req, 422, NoRet)
       ELSE \E t1 \in Readings(clock, horizon) : \E t2 \in Readings(t1, horizon) :
                 LET new_task == NewTask(next_id, TaskCreate(req.body), t1, t2)
                 IN  /\ tasks_db' = Append(tasks_db, new_task)
                     /\ next_id' = Advance(next_id)
                     /\ clock' = t2
                     /\ issued' = issued \cup {new_task.id}
                     /\ Reply(req, Serialized(201, <<new_task>>), new_task)
                     /\ UNCHANGED deleted

\* PUT /{task_id}
UpdateTask(req, horizon) ==
    /\ req.op = "update"
    /\ IF ~TaskUpdateValid(req.body)
       THEN ReadOnly(req, 422, NoRet)
       ELSE LET i == Find(tasks_db, req.id)
            IN  IF i = 0
                THEN ReadOnly(req, 404, NoRet)
                ELSE \E t \in Readings(clock, horizon) :
                       LET task == ApplyUpdate(tasks_db[i], req.body, t)
                       IN  /\ tasks_db' = [tasks_db EXCEPT ![i] = task]
                           /\ clock' = t
                           /\ Reply(req, Serialized(200, <<task>>), task)
                           /\ UNCHANGED <<next_id, issued, deleted>>

\* DELETE /{task_id}
DeleteTask(req, horizon) ==
    /\ req.op = "delete"
    /\ IF Find(tasks_db, req.id) = 0
       THEN ReadOnly(req, 404, NoRet)
       ELSE /\ tasks_db' = Remove(tasks_db, req.id)
            /\ deleted' = deleted \cup {req.id}
            /\ Reply(req, 200, "deleted successfully")
            /\ UNCHANGED <<next_id, clock, issued>>

\* GET /stats/summary
GetTaskSummary(req, horizon) ==
    /\ req.op = "summary"
    /\ ReadOnly(req, 200, get_task_summary(tasks_db))

Serve(req, horizon) ==
    \/ GetTasks(req, horizon)
    \/ GetTask(req, horizon)
    \/ CreateTask(req, horizon)
    \/ UpdateTask(req, horizon)
    \/ DeleteTask(req, horizon)
    \/ GetTaskSummary(req, horizon)

-----------------------------------------------------------------------------
(* The service, requests served one at a time *)

NoResponse == [req |-> NoRequest, code |-> 0, ret |-> NoRet]

Clients == 1..NClients

\* A client that has sent nothing.  A client's slot holds its request, and
\* as history: the clients whose requests were in flight when it was sent
\* (after), whether the id it names was in the store then (present), and once
\* it is served its status code, the id a create returned, and its rank among
\* the requests served (at).
Idle ==
    [state |-> "idle", req |-> NoRequest, after |-> {}, present |-> FALSE,
     code |-> 0, id |-> 0, at |-> 0]

Init ==
    /\ tasks_db = <<>>
    /\ next_id = 1
    /\ clock = 0
    /\ resp = NoResponse
    /\ issued = {}
    /\ deleted = {}
    /\ slot = [c \in Clients |-> Idle]

\* The model serves a create that would store a task only while the counter
\* is within the bound of the specification.
InBounds(req, max_id) ==
    req.op = "create" /\ TaskCreateValid(req.body) => next_id <= max_id

Base == With(Empty, "title", T1)

OneField(raw, f, values) == {With(raw, f, v) : v \in values}

\* The ids requests name: every id the store can issue, and one it cannot.
TaskIds(max_id) == 1..(max_id + 1)

-----------------------------------------------------------------------------
(* Spec: the life of the ids.  Tasks are created, updated, read and deleted *)
(* by id; the clock stays within LifeHorizon.                                *)

LifeHorizon == 0      \* the clock readings of Spec stay <= LifeHorizon

PostTask ==
    \E body \in {Base, With(Base, "title", "")} :
        LET req == Create(body)
        IN  /\ InBounds(req, MaxId)
            /\ Serve(req, LifeHorizon)
            /\ UNCHANGED slot

PutTask ==
    \E task_id \in TaskIds(MaxId) :
        \E body \in {With(Empty, "status", COMPLETED), With(Empty, "title", T201)} :
            /\ Serve(Update(task_id, body), LifeHorizon)
            /\ UNCHANGED slot

DeleteTaskById ==
    \E task_id \in TaskIds(MaxId) :
        /\ Serve(Delete(task_id), LifeHorizon)
        /\ UNCHANGED slot

GetTaskById ==
    \E task_id \in TaskIds(MaxId) :
        /\ Serve(Get(task_id), LifeHorizon)
        /\ UNCHANGED slot

ListTasks ==
    /\ Serve(List(NoQuery), LifeHorizon)
    /\ UNCHANGED slot

SummarizeTasks ==
    /\ Serve(Summary, LifeHorizon)
    /\ UNCHANGED slot

Next ==
    \/ PostTask
    \/ PutTask
    \/ DeleteTaskById
    \/ GetTaskById
    \/ ListTasks
    \/ SummarizeTasks

Spec == Init /\ [][Next]_vars

-----------------------------------------------------------------------------
(* SpecFields: the fields of a task.  Request bodies that set, omit, null   *)
(* and break each field; the clock advances between readings.              *)

FieldTasks == 2     \* SpecFields serves creates while next_id <= FieldTasks

Sample == Payload(T1, D1000, PENDING, MEDIUM, DUE)

FieldCreateBodies ==
    {Base, Sample}
    \cup OneField(Empty, "title", {Unset, None, "", T201})
    \cup {With(Base, "description", D1001), With(Base, "status", "archived"),
          With(Base, "priority", None), With(Base, "due_date", "tomorrow")}

FieldUpdateBodies ==
    {Empty,
     Payload(T200, Unset, IN_PROGRESS, Unset, Unset),
     Payload(Unset, None, Unset, HIGH, None),
     With(Empty, "title", None),
     With(Empty, "title", ""),
     With(Empty, "description", D1001),
     With(Empty, "status", "archived")}

FieldPost ==
    \E body \in FieldCreateBodies :
        LET req == Create(body)
        IN  /\ InBounds(req, FieldTasks)
            /\ Serve(req, MaxClock)
            /\ UNCHANGED slot

FieldPut ==
    \E task_id \in TaskIds(FieldTasks) : \E body \in FieldUpdateBodies :
        /\ Serve(Update(task_id, body), MaxClock)
        /\ UNCHANGED slot

FieldDelete ==
    \E task_id \in TaskIds(FieldTasks) :
        /\ Serve(Delete(task_id), MaxClock)
        /\ UNCHANGED slot

FieldGet ==
    \E task_id \in TaskIds(FieldTasks) :
        /\ Serve(Get(task_id), MaxClock)
        /\ UNCHANGED slot

FieldNext ==
    \/ FieldPost
    \/ FieldPut
    \/ FieldDelete
    \/ FieldGet

SpecFields == Init /\ [][FieldNext]_vars

-----------------------------------------------------------------------------
(* SpecUpdate: updates of one task among others.  Bodies that carry no      *)
(* field, two fields, and three fields of which two are null; the clock    *)
(* advances between readings.                                              *)

UpdateTasks == 2    \* SpecUpdate serves creates while next_id <= UpdateTasks

UpdateBodies ==
    {Empty,
     Payload(T200, Unset, IN_PROGRESS, Unset, Unset),
     Payload(Unset, None, Unset, HIGH, None)}

UpdatePost ==
    LET req == Create(Sample)
    IN  /\ InBounds(req, UpdateTasks)
        /\ Serve(req, MaxClock)
        /\ UNCHANGED slot

UpdatePut ==
    \E task_id \in TaskIds(UpdateTasks) : \E body \in UpdateBodies :
        /\ Serve(Update(task_id, body), MaxClock)
        /\ UNCHANGED slot

UpdateDelete ==
    \E task_id \in TaskIds(UpdateTasks) :
        /\ Serve(Delete(task_id), MaxClock)
        /\ UNCHANGED slot

UpdateNext ==
    \/ UpdatePost
    \/ UpdatePut
    \/ UpdateDelete

SpecUpdate == Init /\ [][UpdateNext]_vars

-----------------------------------------------------------------------------
(* SpecQuery: lists and summaries of stores whose tasks differ in status    *)
(* and priority, a null status included.  The clock stands still: every    *)
(* reading is the last one.                                                 *)

QueryTasks == 3     \* SpecQuery serves creates while next_id <= QueryTasks

Window(limit, offset) == [status |-> Unset, priority |-> Unset, limit |-> limit, offset |-> offset]

Filtered(q, status, priority) == [q EXCEPT !.status = status, !.priority = priority]

Windows ==
    {NoQuery, Window(1, 0), Window(1, 1), Window(2, 1), Window(1, 2), Window(LimitMax, 3)}

Queries ==
    {Filtered(w, f[1], f[2]) :
        w \in Windows,
        f \in {<<Unset, Unset>>, <<PENDING, Unset>>, <<Unset, HIGH>>, <<PENDING, HIGH>>}}
    \cup {Window(LimitMin - 1, 0), Window(LimitMax + 1, 0), Window(1, OffsetMin - 1),
          Filtered(NoQuery, "archived", Unset), Filtered(NoQuery, Unset, "urgent")}

QueryPost ==
    \E body \in {Base, With(Base, "status", COMPLETED), With(Base, "title", "")} :
        LET req == Create(body)
        IN  /\ InBounds(req, QueryTasks)
            /\ Serve(req, clock)
            /\ UNCHANGED slot

QueryPut ==
    \E task_id \in TaskIds(QueryTasks) :
        \E body \in {With(Empty, "status", None), With(Empty, "priority", HIGH)} :
            /\ Serve(Update(task_id, body), clock)
            /\ UNCHANGED slot

QueryDelete ==
    \E task_id \in TaskIds(QueryTasks) :
        /\ Serve(Delete(task_id), clock)
        /\ UNCHANGED slot

QueryList ==
    \E q \in Queries :
        /\ Serve(List(q), clock)
        /\ UNCHANGED slot

QuerySummary ==
    /\ Serve(Summary, clock)
    /\ UNCHANGED slot

QueryNext ==
    \/ QueryPost
    \/ QueryPut
    \/ QueryDelete
    \/ QueryList
    \/ QuerySummary

SpecQuery == Init /\ [][QueryNext]_vars

-----------------------------------------------------------------------------
(* SpecConcurrent: requests in flight together.  Each client sends one      *)
(* request; the event loop runs the handlers of the requests in flight in  *)
(* any order, each from its first line to its return (no handler awaits).  *)
(* Clients are numbered in the order they send.  The clock stands still.   *)

ConcurrentRequests ==
    {Create(Base)}
    \cup {Delete(task_id) : task_id \in 1..2}
    \cup {Update(task_id, With(Empty, "status", COMPLETED)) : task_id \in 1..2}

InFlight == {c \in Clients : slot[c].state = "pending"}

Served == {c \in Clients : slot[c].state = "done"}

\* The request of client c arrives.
Send(c) ==
    /\ slot[c].state = "idle"
    /\ \A b \in Clients : b < c => slot[b].state # "idle"
    /\ \E req \in ConcurrentRequests :
          slot' = [slot EXCEPT ![c] =
                      [Idle EXCEPT !.state = "pending",
                                   !.req = req,
                                   !.after = InFlight,
                                   !.present = req.id \in Ids(tasks_db)]]
    /\ UNCHANGED <<tasks_db, next_id, clock, resp, issued, deleted>>

\* The event loop runs the handler of client c's request.
Handle(c) ==
    /\ slot[c].state = "pending"
    /\ Serve(slot[c].req, clock)
    /\ slot' = [slot EXCEPT ![c] =
                   [@ EXCEPT !.state = "done",
                             !.code = resp'.code,
                             !.id = IF resp'.code = 201 THEN resp'.ret.id ELSE 0,
                             !.at = Cardinality(Served) + 1]]

ConcurrentNext ==
    \/ \E c \in Clients : Send(c)
    \/ \E c \in Clients : Handle(c)

SpecConcurrent == Init /\ [][ConcurrentNext]_vars

-----------------------------------------------------------------------------
(* C1, C4: ids and deletion *)

\* The step stored a new task and answered 201.
Created == resp'.req.op = "create" /\ resp'.code = 201

\* The step removed a task and answered 200.
Deleted == resp'.req.op = "delete" /\ resp'.code = 200

UniqueIds == \A i, j \in 1..Len(tasks_db) : i # j => tasks_db[i].id # tasks_db[j].id

\* C1: every successful create returns an id strictly greater than every id
\* an earlier create returned, the first being 1; so the tasks in the store
\* have pairwise different ids, and no create returns the id of a task that
\* was deleted.
C1_IdsNeverReused ==
    /\ [](UniqueIds /\ deleted \cap Ids(tasks_db) = {})
    /\ [][Created =>
            /\ \A i \in issued : resp'.ret.id > i
            /\ issued = {} => resp'.ret.id = 1
            /\ resp'.ret.id \notin deleted
            /\ tasks_db'[Len(tasks_db')].id = resp'.ret.id]_vars

\* A create that follows a delete, in a store that holds another task.
C1_Witness ==
    /\ resp.req.op = "create" /\ resp.code = 201
    /\ deleted # {}
    /\ Len(tasks_db) >= 2

\* tasks_db without its k-th element
Without(db, k) == [i \in 1..(Len(db) - 1) |-> IF i < k THEN db[i] ELSE db[i + 1]]

\* C4: a successful delete removes the one task with the id and leaves the
\* others as they were, in their order; and from then on the id is not in
\* the store and a get of it answers 404.
C4_DeleteIsFinal ==
    /\ [][Deleted =>
            \E k \in 1..Len(tasks_db) :
                /\ tasks_db[k].id = resp'.req.id
                /\ tasks_db' = Without(tasks_db, k)]_vars
    /\ [](\A task_id \in deleted :
            /\ task_id \notin Ids(tasks_db)
            /\ resp.req.op = "get" /\ resp.req.id = task_id => resp.code = 404)

\* The second of three tasks was deleted, and a get has asked for it since.
C4_Witness ==
    /\ deleted = {2}
    /\ Len(tasks_db) = 2
    /\ resp.req.op = "get" /\ resp.req.id = 2

-----------------------------------------------------------------------------
(* C2, C3, C5, C9: the fields of the stored tasks *)

\* C2: every stored task has a title of 1 to 200 characters, a description
\* that is absent or of at most 1000 characters, a status among the four
\* statuses and a priority among the four priorities.
C2_StoredFieldsValid ==
    \A i \in 1..Len(tasks_db) :
        LET task == tasks_db[i]
        IN  /\ task.title \notin {None, Unset}
            /\ Len(task.title) \in 1..200
            /\ task.description = None \/ Len(task.description) <= 1000
            /\ task.status \in {"pending", "in_progress", "completed", "cancelled"}
            /\ task.priority \in {"low", "medium", "high", "critical"}

\* The step updated a task and answered 200.
Updated == resp'.req.op = "update" /\ resp'.code = 200

\* C3: a successful update sets, in the task with the id, the fields the
\* body carries to the values it carries and updated_at to the time of the
\* request; the task's other fields, its id and its created_at keep their
\* values, and so does every other task.
C3_UpdateFrame ==
    [][Updated =>
        \E k \in 1..Len(tasks_db) :
            LET old == tasks_db[k]
                new == tasks_db'[k]
                body == resp'.req.body
            IN  /\ old.id = resp'.req.id
                /\ Len(tasks_db') = Len(tasks_db)
                /\ \A j \in 1..Len(tasks_db) : j # k => tasks_db'[j] = tasks_db[j]
                /\ \A f \in Fields :
                      new[f] = IF body[f] # Unset THEN body[f] ELSE old[f]
                /\ new.id = old.id
                /\ new.created_at = old.created_at
                /\ new.updated_at = clock'
                /\ clock' >= clock
                /\ resp'.ret = new
                /\ next_id' = next_id]_vars

\* The second of two tasks got a new title and status some time after its
\* creation; its description, priority and due date were not in the body.
C3_Witness ==
    /\ resp.req.op = "update" /\ resp.code = 200
    /\ resp.req.id = 2
    /\ Len(tasks_db) = 2
    /\ resp.req.body = Payload(T200, Unset, IN_PROGRESS, Unset, Unset)
    /\ tasks_db[2].description = D1000
    /\ tasks_db[2].updated_at > tasks_db[2].created_at

\* C5: a request that is answered with an error status leaves the list of
\* tasks and the id counter as they were.
C5_FailuresChangeNothing ==
    [][resp'.code >= 400 => tasks_db' = tasks_db /\ next_id' = next_id]_vars

\* C9: the task a create returns has created_at equal to updated_at.
C9_CreatedEqualsUpdated ==
    resp.req.op = "create" /\ resp.code = 201
        => resp.ret.created_at = resp.ret.updated_at

-----------------------------------------------------------------------------
(* C6, C7, C8: list and summary.  Neither changes the store, so the        *)
(* response served last is compared with the store as it is.               *)

\* The last request was a list whose handler ran (its query was valid).
Listed == resp.req.op = "list" /\ resp.code # 422

\* The positions in tasks_db of the tasks that pass the filters of query q.
Matching(q) ==
    {i \in 1..Len(tasks_db) :
        /\ q.status # Unset => tasks_db[i].status = q.status
        /\ q.priority # Unset => tasks_db[i].priority = q.priority}

\* The rank of position i among the matching positions, from 1.
Rank(q, i) == Cardinality({j \in Matching(q) : j <= i})

Min(a, b) == IF a < b THEN a ELSE b
Max(a, b) == IF a > b THEN a ELSE b

C8_Summary ==
    resp.req.op = "summary" =>
        LET r == resp.ret
            n(field, value) ==
                Cardinality({i \in 1..Len(tasks_db) : tasks_db[i][field] = value})
        IN  /\ r.total = Len(tasks_db)
            /\ IF tasks_db # <<>>
               THEN /\ DOMAIN r.by_status = {"pending", "in_progress", "completed", "cancelled"}
                    /\ DOMAIN r.by_priority = {"low", "medium", "high", "critical"}
                    /\ \A s \in DOMAIN r.by_status : r.by_status[s] = n("status", s)
                    /\ \A p \in DOMAIN r.by_priority : r.by_priority[p] = n("priority", p)
               ELSE /\ r.total = 0
                    /\ DOMAIN r.by_status = {}
                    /\ DOMAIN r.by_priority = {}

\* A summary of a store that every task was deleted from.
C8_Witness ==
    /\ resp.req.op = "summary"
    /\ tasks_db = <<>>
    /\ Cardinality(deleted) >= 2

-----------------------------------------------------------------------------
(* C10: requests in flight together *)

\* The store a serial service holds after the first k requests served, in
\* the order they were served.
RECURSIVE SerialStore(_)
SerialStore(k) ==
    IF k = 0 THEN [db |-> <<>>, next |-> 1]
    ELSE LET before == SerialStore(k - 1)
             db == before.db
             req == slot[CHOOSE c \in Served : slot[c].at = k].req
             at == {i \in 1..Len(db) : db[i].id = req.id}
         IN  IF req.op = "create" /\ TaskCreateValid(req.body)
             THEN [db |-> Append(db, [id |-> before.next,
                                      created_at |-> clock,
                                      updated_at |-> clock]
                                     @@ TaskCreate(req.body)),
                   next |-> before.next + 1]
             ELSE IF req.op = "update" /\ TaskUpdateValid(req.body) /\ at # {}
             THEN LET i == CHOOSE i \in at : TRUE
                  IN  [before EXCEPT !.db[i] =
                          [f \in DOMAIN db[i] |->
                              IF f \in Fields /\ req.body[f] # Unset
                              THEN req.body[f] ELSE db[i][f]]]
             ELSE IF req.op = "delete" /\ at # {}
             THEN [before EXCEPT !.db = Without(db, CHOOSE i \in at : TRUE)]
             ELSE before

\* The requests of clients a and b were in flight together.
Together(a, b) == a \in slot[b].after \/ b \in slot[a].after

\* ... and the id they name was in the store while they were.
TogetherOnStored(a, b) ==
    \/ a \in slot[b].after /\ slot[b].present
    \/ b \in slot[a].after /\ slot[a].present

\* C10: whatever the order in which the handlers of requests in flight
\* together run, the store is the one a serial service holds after the same
\* requests in the order they were served; creates return different ids; of
\* two deletes of a stored id, in flight together and alone in deleting it,
\* one is answered 200 and the other 404; and once a delete was answered 200
\* the task is not in the store, whatever update was in flight with it.
C10_Serializable ==
    /\ tasks_db = SerialStore(Cardinality(Served)).db
    /\ next_id = SerialStore(Cardinality(Served)).next
    /\ \A a, b \in Served :
          /\ a # b /\ slot[a].code = 201 /\ slot[b].code = 201
                => slot[a].id # slot[b].id
          /\ a # b /\ slot[a].req.op = "delete" /\ slot[b].req = slot[a].req
                => /\ ~(slot[a].code = 200 /\ slot[b].code = 200)
                   /\ TogetherOnStored(a, b)
                        /\ (\A c \in Clients \ {a, b} : slot[c].req # slot[a].req)
                        => {slot[a].code, slot[b].code} = {200, 404}
          /\ slot[a].req.op = "delete" /\ slot[a].code = 200
                => /\ slot[a].req.id \notin Ids(tasks_db)
                   /\ slot[b].req.op = "update" /\ slot[b].req.id = slot[a].req.id
                        /\ slot[b].at > slot[a].at
                        => slot[b].code = 404

\* Two deletes of task 1 were in flight together while it was stored, and
\* both have been answered.
C10_Witness ==
    \E a, b \in Served :
        /\ a # b
        /\ slot[a].req = Delete(1) /\ slot[b].req = Delete(1)
        /\ TogetherOnStored(a, b)

-----------------------------------------------------------------------------
(* C11: the counts of a summary add up *)

\* The sum of the values of a mapping from keys to numbers.
RECURSIVE SumValues(_)
SumValues(counts) ==
    IF DOMAIN counts = {} THEN 0
    ELSE LET k == CHOOSE x \in DOMAIN counts : TRUE
         IN  counts[k] + SumValues([x \in DOMAIN counts \ {k} |-> counts[x]])

\* C11: the summary of a store that is not empty has by_status values that
\* add up to total and by_priority values that add up to total: every
\* stored task is counted under exactly one status key and exactly one
\* priority key.
C11_SummaryCountsAddUp ==
    (resp.req.op = "summary" /\ tasks_db # <<>>) =>
        /\ SumValues(resp.ret.by_status) = resp.ret.total
        /\ SumValues(resp.ret.by_priority) = resp.ret.total
        /\ \A i \in 1..Len(tasks_db) :
              /\ Cardinality({s \in DOMAIN resp.ret.by_status : tasks_db[i].status = s}) = 1
              /\ Cardinality({p \in DOMAIN resp.ret.by_priority : tasks_db[i].priority = p}) = 1

====
